---- MODULE Spec2Model ----
(***************************************************************************)
(* Model of SlideshowQueueManager                                          *)
(* (custom_components/samsungtv_smart/slideshow.py): the playback queue    *)
(* with its cursor, the bounded history, the one-shot pending overlay and  *)
(* the random fallback over the available artworks with its               *)
(* recently-shown list, one action per public method; and of              *)
(* SlideshowSwitch (switch.py), which loads the available artworks, turns  *)
(* the rotation on and off and advances it from a single-shot timer, one   *)
(* action per stretch of a handler between two awaits.                     *)
(*                                                                         *)
(* Spec plays queues built by set_queue, add_to_queue and remove_from_queue;*)
(* SpecRandom loads the available artworks, toggles auto-random and calls  *)
(* the preview methods as well; SpecEdit edits the queue with content ids  *)
(* that differ in case only; SpecDriver runs the switch, its timer and the *)
(* interval number over a queue manager; SpecLoad turns the switch on with *)
(* every way the uploads of a load can end; SpecStart runs two            *)
(* async_turn_on calls await by await; SpecShuffle replaces and shuffles   *)
(* the queue; SpecPeek previews the next artwork in every state of the     *)
(* manager; SpecFifo fills History and Recently-Shown to their capacities; *)
(* SpecProviders initialises, refreshes and loads the artwork providers    *)
(* (providers/); SpecButtons adds the switch of slideshow.py and the       *)
(* buttons of button.py, which share the queue manager; SpecOrder plays    *)
(* one three-artwork queue while artworks are removed from it; SpecBack    *)
(* plays one queue forwards and backwards.  op, ret, branch, arg, results, *)
(* log, setArg, setValid, selected, dop, loaded, others, uploads, pcall,   *)
(* all_result and interrupted record the calls made and what they          *)
(* returned, and timers counts the callbacks the event loop holds for the  *)
(* switch; the methods do not read them.                                   *)
(*                                                                         *)
(* An artwork is a dict; the model keeps the two keys that tell artworks   *)
(* apart: content_id ("" when the key is missing or empty) and title.      *)
(* A history entry is {"artwork", "timestamp"}; no code reads the          *)
(* timestamp, the model keeps the artwork.                                 *)
(***************************************************************************)
EXTENDS Integers, Sequences, FiniteSets, TLC

\* ---------------------------------------------------------------- bounds
\* most get_next calls of a rotation through a three-artwork queue
MaxPlays == 3
\* longest list handed to set_queue
MaxLen == 2
\* get_next is not called any more once History holds this many entries
MaxHist == 2

\* ------------------------------------------------------ program constants
HISTORY_MAXLEN == 50
RECENT_MAXLEN == 20
DEFAULT_DURATION == 10
SECONDS_PER_MINUTE == 60
DEFAULT_INTERVAL == 600

\* ---------------------------------------------------------------- values
None == [content_id |-> "", title |-> "None"]
ArtA == [content_id |-> "a", title |-> "A"]
ArtA2 == [content_id |-> "a", title |-> "A2"]
ArtB == [content_id |-> "b", title |-> "B"]
ArtNoId == [content_id |-> "", title |-> "N"]
\* an artwork whose content id differs from ArtA's in case only
ArtUpper == [content_id |-> "A", title |-> "U"]

ArtC == [content_id |-> "c", title |-> "C"]

\* artworks that carry a content_id
Artworks == {ArtA, ArtA2, ArtB}
\* everything a caller may hand to add_to_queue
Inputs == Artworks \cup {ArtNoId, None}
\* the same with ids that differ in case only, and one artwork per id
EditInputs == {ArtA, ArtUpper, ArtB, ArtNoId, None}

SeqsUpTo(S, n) == UNION {[1..k -> S] : k \in 0..n}

\* lists set_queue receives: no artwork twice, some artworks sharing a content id,
\* some without one
QueueInputs ==
    {s \in SeqsUpTo(Artworks \cup {ArtNoId}, MaxLen) :
        \A i, j \in 1..Len(s) : s[i] = s[j] => i = j}

\* artworks of the TV's content list: one per content id
PoolArtworks == {ArtA, ArtB}

\* lists set_available_artworks receives: no content id twice
PoolInputs ==
    {s \in SeqsUpTo(PoolArtworks, Cardinality(PoolArtworks)) :
        \A i, j \in 1..Len(s) : s[i] = s[j] => i = j}

\* what a caller hands to add_overlay
OverlayInputs == {ArtA2, ArtB, ArtNoId, None}

\* --------------------------------------------------------------- helpers
Range(s) == {s[i] : i \in 1..Len(s)}

IdsOf(s) == {s[i].content_id : i \in 1..Len(s)}

Last(s) == s[Len(s)]

Front(s) == SubSeq(s, 1, Len(s) - 1)

\* `artwork and artwork.get("content_id")`
HasContentId(artwork) == artwork # None /\ artwork.content_id # ""

\* an append that never evicts
DequeAppendNoEvict(d, x, maxlen) == Append(d, x)

\* append to a collections.deque(maxlen=maxlen)
DequeAppend(d, x, maxlen) ==
    IF Len(d) >= maxlen THEN Append(Tail(d), x) ELSE Append(d, x)

\* a deletion that fills the hole with the last element
DeleteBySwap(s, i) ==
    IF i = Len(s)
    THEN SubSeq(s, 1, Len(s) - 1)
    ELSE [k \in 1..(Len(s) - 1) |-> IF k = i THEN s[Len(s)] ELSE s[k]]

\* the list with the element at position i deleted (del self._queue[i])
DeleteAt(s, i) == SubSeq(s, 1, i - 1) \o SubSeq(s, i + 1, Len(s))

\* a shuffle that draws every position anew, so that an element may come twice
ShufflesWithRepeats(s) == [1..Len(s) -> Range(s)]

\* the results random.shuffle may leave in the list: every permutation
RECURSIVE Shuffles(_)
Shuffles(s) ==
    IF Len(s) <= 1
    THEN {s}
    ELSE UNION {{<<s[i]>> \o t : t \in Shuffles(DeleteAt(s, i))} : i \in 1..Len(s)}

\* how many times each element occurs
BagOf(s) == [x \in Range(s) |-> Cardinality({i \in 1..Len(s) : s[i] = x})]

\* every element carries a content_id and no content_id occurs twice
UniqueIds(s) ==
    /\ \A i \in 1..Len(s) : HasContentId(s[i])
    /\ \A i, j \in 1..Len(s) : s[i].content_id = s[j].content_id => i = j

\* --------------------------------------------------------------- state
VARIABLES
    queue,          \* _queue
    current_index,  \* _current_index
    history,        \* _history, artworks oldest first
    pending_overlay,\* _pending_overlay (None when empty)
    shuffle,        \* _shuffle
    auto_random,    \* _auto_random
    available_artworks, \* _available_artworks
    recently_shown, \* _recently_shown, content ids oldest first
    op,             \* the method called last
    ret,            \* what it returned
    branch,         \* which branch get_next / peek_next took
    arg,            \* the artwork handed to add_overlay or add_to_queue, or the content
                    \* id handed to remove_from_queue, when that was the last call
    results,        \* what the latest get_next calls returned (at most two), while
                    \* nothing else has been called since
    log,            \* results of the queue-branch get_next calls since the queue last changed
    setArg,         \* list handed to the latest set_queue, when its ids are unique
    setValid,       \* setArg is set, the queue is the one set_queue built from it, log starts there
    is_on,          \* SlideshowSwitch._is_on
    duration,       \* SlideshowSwitch._duration, minutes
    cancel_timer,   \* SlideshowSwitch._cancel_timer: the handle of the timer armed last
    timers,         \* callbacks async_call_later holds for the switch, not yet run or cancelled
                    \* and the delay it was armed with
    on_pc,          \* where a running async_turn_on stands
    off_pc,         \* where a running async_turn_off stands
    adv_pc,         \* where a running _advance_slide stands
    rotation,       \* interval of the latest set_auto_rotation_status sent to the TV
    selected,       \* the select_artwork call of the latest _advance_slide
    dop,            \* the step of the switch taken last
    loaded,         \* what the latest _load_artworks was given, while it is the last step
    others,         \* a step other than _advance_slide ran since async_turn_off began
    starts,         \* the async_turn_on calls in flight: where each stands, its local
                    \* tv_artworks list and the external artworks it has still to upload
    uploads,        \* per external artwork, how often upload_artwork stored it on the TV
    provider_enabled, \* ArtworkProvider._enabled, per provider
    last_error,     \* ArtworkProvider._last_error, per provider ("" for None)
    provider_artworks, \* ArtworkProvider._artworks, per provider
    pcall,          \* the provider call made last and how its load ended
    all_result,     \* what the latest async_load_all_artworks returned
    variant_on,     \* _is_on of the SlideshowSwitch of slideshow.py
    variant_timer,  \* that switch has a timer armed
    interrupted     \* the latest command is an async_turn_off that began while an
                    \* async_turn_on was in _load_artworks and none was past it

vars == <<queue, current_index, history, pending_overlay, shuffle, auto_random,
          available_artworks, recently_shown, op, ret, branch, arg, results,
          log, setArg, setValid, is_on, duration, cancel_timer, timers, on_pc, off_pc, adv_pc,
          rotation, selected, dop, loaded, others, starts, uploads, provider_enabled,
          last_error,
          provider_artworks, pcall, all_result, variant_on, variant_timer, interrupted>>

\* the state of the switch entity
driverVars == <<is_on, duration, cancel_timer, timers, on_pc, off_pc, adv_pc, rotation,
                selected, dop, loaded, others>>

\* the state of the concurrent starts, the providers and the switch of slideshow.py
extraVars == <<starts, uploads, provider_enabled, last_error, provider_artworks, pcall,
               all_result, variant_on, variant_timer, interrupted>>

\* the async_turn_on calls that may run at the same time
Tasks == {"first", "second"}

\* an async_turn_on that is not running
IdleStart == [pc |-> "idle", tv_artworks |-> <<>>, todo |-> <<>>]

\* the providers async_initialize_all registers, by config key
Providers == {"media_folder", "google_arts", "bing_wallpaper"}

\* no provider call made yet
NoCall == [op |-> "none", provider |-> "none", outcome |-> "none"]

\* `self._cancel_timer = None`
NoTimer == [state |-> "none", delay |-> 0]

\* SlideshowQueueManager.__init__ and SlideshowSwitch.__init__
Init ==
    /\ queue = <<>>
    /\ current_index = -1
    /\ history = <<>>
    /\ pending_overlay = None
    /\ shuffle = TRUE
    /\ auto_random = TRUE
    /\ available_artworks = <<>>
    /\ recently_shown = <<>>
    /\ op = "init"
    /\ ret = None
    /\ branch = "none"
    /\ arg = None
    /\ results = <<>>
    /\ log = <<>>
    /\ setArg = <<>>
    /\ setValid = FALSE
    /\ is_on = FALSE
    /\ duration = DEFAULT_DURATION
    /\ cancel_timer = NoTimer
    /\ timers = 0
    /\ on_pc = "idle"
    /\ off_pc = "idle"
    /\ adv_pc = "idle"
    /\ rotation = <<>>
    /\ selected = <<>>
    /\ dop = "init"
    /\ loaded = <<>>
    /\ others = FALSE
    /\ starts = [t \in Tasks |-> IdleStart]
    /\ uploads = [id \in {"x", "y"} |-> "never"]
    /\ provider_enabled = [p \in Providers |-> FALSE]
    /\ last_error = [p \in Providers |-> ""]
    /\ provider_artworks = [p \in Providers |-> <<>>]
    /\ pcall = NoCall
    /\ all_result = <<>>
    /\ variant_on = FALSE
    /\ variant_timer = FALSE
    /\ interrupted = FALSE

\* -------------------------------------------------------------- selection
\* the list comprehension of _get_random_artwork / peek_next
NotRecentlyShown(pool, recent) ==
    SelectSeq(pool, LAMBDA art : art.content_id \notin Range(recent))

\* a recently-shown list that is never reset
RecentKept(pool, recent) == recent

\* recently_shown after the reset of _get_random_artwork
RecentAfterReset(pool, recent) ==
    IF NotRecentlyShown(pool, recent) = <<>> THEN <<>> ELSE recent

\* the list random.choice draws from in _get_random_artwork
RandomCandidates(pool, recent) ==
    IF NotRecentlyShown(pool, recent) = <<>> THEN pool ELSE NotRecentlyShown(pool, recent)

\* what a read of self._queue[idx] that raises IndexError leaves as the result
IndexError == [content_id |-> "", title |-> "IndexError"]

\* `self._queue[self._current_index]`, idx never negative
QueueAt(q, idx) == IF idx < Len(q) THEN q[idx + 1] ELSE IndexError

\* a cursor that is not reduced modulo the length
NextIndexNoWrap(idx, q) == idx + 1

\* a cursor that stays on the last element instead of wrapping
NextIndexStuck(idx, q) == IF idx + 1 >= Len(q) THEN Len(q) - 1 ELSE idx + 1

\* index the cursor of get_next moves to
NextIndex(idx, q) == (idx + 1) % Len(q)

\* a preview of the element the cursor is on instead of the one after it
PeekIndexCurrent(idx, q) == IF idx < 0 THEN 0 ELSE idx % Len(q)

\* index peek_next reads
PeekIndex(idx, q) == (idx + 1) % Len(q)

\* an overlay that get_next returns and leaves in place
KeptOverlay(overlay) == overlay

\* the pending overlay once get_next has taken it
ClearedOverlay(overlay) == None

\* a cursor that set_queue leaves where it was
IndexKept(idx) == idx

\* the cursor after set_queue
IndexAfterSetQueue(idx) == -1

\* a random fallback that does not look at auto-random
TakesRandomAlways(auto) == TRUE

\* `elif self._auto_random` of get_next
TakesRandom(auto) == auto

\* an early return that lets a single entry through
HistoryEmpty(h) == Len(h) < 1

\* the early return of get_previous
HistoryTooShort(h) == Len(h) < 2

\* what get_next() serves when no overlay is pending and the queue is not empty
ServedNext(q, idx) == q[((idx + 1) % Len(q)) + 1]

\* ---------------------------------------------------------------- actions
Returned(name, result, br, a, res) ==
    /\ op' = name
    /\ ret' = result
    /\ branch' = br
    /\ arg' = a
    /\ results' = res

Called(name, result, br) == Returned(name, result, br, None, <<>>)

\* the latest results with one more
Latest(res, artwork) ==
    IF Len(res) < 2 THEN Append(res, artwork) ELSE Append(Tail(res), artwork)

QueueChanged ==
    /\ log' = <<>>
    /\ setArg' = <<>>
    /\ setValid' = FALSE

\* lower-case form of a content id
Lower(content_id) == IF content_id = "A" THEN "a" ELSE content_id

\* a duplicate check that ignores case
AlreadyQueuedIgnoringCase(q, content_id) ==
    Lower(content_id) \in {Lower(q[i].content_id) : i \in 1..Len(q)}

\* `any(item.get("content_id") == content_id for item in self._queue)`
AlreadyQueued(q, content_id) == content_id \in IdsOf(q)

\* add_to_queue(artwork)
AddToQueue(artwork) ==
    /\ UNCHANGED <<driverVars, extraVars>>
    /\ IF ~HasContentId(artwork)
       THEN queue' = queue
       ELSE IF AlreadyQueued(queue, artwork.content_id)
            THEN queue' = queue
            ELSE queue' = Append(queue, artwork)
    /\ Returned("add_to_queue", None, "none", artwork, <<>>)
    /\ QueueChanged
    /\ UNCHANGED <<current_index, history, pending_overlay, shuffle, auto_random,
                   available_artworks, recently_shown>>

\* a content id as the argument of a call
IdArg(content_id) == [content_id |-> content_id, title |-> ""]

\* remove_from_queue(content_id)
RemoveFromQueue(content_id) ==
    /\ UNCHANGED <<driverVars, extraVars>>
    /\ IF \E i \in 1..Len(queue) : queue[i].content_id = content_id
       THEN LET i == CHOOSE k \in 1..Len(queue) :
                        /\ queue[k].content_id = content_id
                        /\ \A j \in 1..(k - 1) : queue[j].content_id # content_id
            IN /\ queue' = DeleteAt(queue, i)
               /\ Returned("remove_from_queue", TRUE, "none", IdArg(content_id), <<>>)
       ELSE /\ queue' = queue
            /\ Returned("remove_from_queue", FALSE, "none", IdArg(content_id), <<>>)
    /\ QueueChanged
    /\ UNCHANGED <<current_index, history, pending_overlay, shuffle, auto_random,
                   available_artworks, recently_shown>>

\* the queue set_queue builds before shuffling
Filtered(artworks) == SelectSeq(artworks, HasContentId)

\* set_queue(artworks)
SetQueue(artworks) ==
    /\ UNCHANGED <<driverVars, extraVars>>
    /\ IF shuffle
       THEN queue' \in Shuffles(Filtered(artworks))
       ELSE queue' = Filtered(artworks)
    /\ current_index' = IndexAfterSetQueue(current_index)
    /\ Called("set_queue", None, "none")
    /\ log' = <<>>
    /\ IF UniqueIds(artworks)
       THEN setArg' = artworks /\ setValid' = TRUE
       ELSE setArg' = <<>> /\ setValid' = FALSE
    /\ UNCHANGED <<history, pending_overlay, shuffle, auto_random,
                   available_artworks, recently_shown>>

\* get_next()
GetNextBody ==
    /\ IF pending_overlay # None
       THEN /\ pending_overlay' = ClearedOverlay(pending_overlay)
            /\ Returned("get_next", pending_overlay, "overlay", None,
                        Latest(results, pending_overlay))
            /\ QueueChanged
            /\ UNCHANGED <<queue, current_index, history, recently_shown>>
       ELSE IF queue # <<>>
       THEN /\ current_index' = NextIndex(current_index, queue)
            /\ history' = DequeAppend(history, QueueAt(queue, current_index'), HISTORY_MAXLEN)
            /\ Returned("get_next", QueueAt(queue, current_index'), "queue", None,
                        Latest(results, QueueAt(queue, current_index')))
            /\ IF Len(log) <= MaxLen
               THEN /\ log' = Append(log, QueueAt(queue, current_index'))
                    /\ UNCHANGED <<setArg, setValid>>
               ELSE /\ log' = Append(Tail(log), QueueAt(queue, current_index'))
                    /\ setArg' = <<>>
                    /\ setValid' = FALSE
            /\ UNCHANGED <<queue, pending_overlay, recently_shown>>
       ELSE IF TakesRandom(auto_random)
       THEN IF available_artworks = <<>>
            THEN /\ Called("get_next", None, "random")
                 /\ UNCHANGED <<queue, current_index, history, pending_overlay,
                                recently_shown, log, setArg, setValid>>
            ELSE \E i \in 1..Len(RandomCandidates(available_artworks, recently_shown)) :
                    LET artwork == RandomCandidates(available_artworks, recently_shown)[i]
                    IN /\ recently_shown' =
                            DequeAppend(RecentAfterReset(available_artworks, recently_shown),
                                        artwork.content_id, RECENT_MAXLEN)
                       /\ history' = DequeAppend(history, artwork, HISTORY_MAXLEN)
                       /\ Returned("get_next", artwork, "random", None,
                                   Latest(results, artwork))
                       /\ UNCHANGED <<queue, current_index, pending_overlay,
                                      log, setArg, setValid>>
       ELSE /\ Called("get_next", None, "none")
            /\ UNCHANGED <<queue, current_index, history, pending_overlay,
                           recently_shown, log, setArg, setValid>>
    /\ UNCHANGED <<shuffle, auto_random, available_artworks>>

\* get_next(), called while History is short of MaxHist entries
GetNextStep ==
    /\ Len(history) < MaxHist
    /\ GetNextBody

\* get_next() called by a service handler
GetNext ==
    /\ GetNextStep
    /\ UNCHANGED <<driverVars, extraVars>>

\* get_previous()
GetPreviousSteppingBack ==
    /\ IF HistoryTooShort(history)
       THEN /\ UNCHANGED <<history, current_index>>
            /\ Called("get_previous", None, "none")
       ELSE /\ history' = Front(history)
            /\ current_index' = IF current_index > 0 THEN current_index - 1 ELSE current_index
            /\ Called("get_previous",
                      IF Front(history) # <<>> THEN Last(Front(history)) ELSE None, "none")
    /\ UNCHANGED <<queue, pending_overlay, shuffle, auto_random,
                   available_artworks, recently_shown, log, setArg, setValid>>

\* get_previous()
GetPreviousStep ==
    /\ IF HistoryTooShort(history)
       THEN /\ history' = history
            /\ Called("get_previous", None, "none")
       ELSE /\ history' = Front(history)
            /\ Called("get_previous",
                      IF Front(history) # <<>> THEN Last(Front(history)) ELSE None, "none")
    /\ UNCHANGED <<queue, current_index, pending_overlay, shuffle, auto_random,
                   available_artworks, recently_shown, log, setArg, setValid>>

\* get_previous() called by a service handler
GetPrevious ==
    /\ GetPreviousStep
    /\ UNCHANGED <<driverVars, extraVars>>

\* a preview that takes the random pick through _get_random_artwork
PeekNextConsuming ==
    /\ UNCHANGED <<driverVars, extraVars>>
    /\ IF pending_overlay # None
       THEN /\ Called("peek_next", pending_overlay, "overlay")
            /\ UNCHANGED recently_shown
       ELSE IF queue # <<>>
       THEN /\ Called("peek_next", queue[PeekIndex(current_index, queue) + 1], "queue")
            /\ UNCHANGED recently_shown
       ELSE IF auto_random
       THEN IF available_artworks = <<>>
            THEN /\ Called("peek_next", None, "random")
                 /\ UNCHANGED recently_shown
            ELSE \E i \in 1..Len(RandomCandidates(available_artworks, recently_shown)) :
                    LET artwork == RandomCandidates(available_artworks, recently_shown)[i]
                    IN /\ recently_shown' =
                            DequeAppend(RecentAfterReset(available_artworks, recently_shown),
                                        artwork.content_id, RECENT_MAXLEN)
                       /\ Called("peek_next", artwork, "random")
       ELSE /\ Called("peek_next", None, "none")
            /\ UNCHANGED recently_shown
    /\ UNCHANGED <<queue, current_index, history, pending_overlay, shuffle, auto_random,
                   available_artworks, log, setArg, setValid>>

\* a preview that draws from all available artworks, recently shown or not
PeekNextIgnoringRecent ==
    /\ UNCHANGED <<driverVars, extraVars>>
    /\ IF pending_overlay # None
       THEN Called("peek_next", pending_overlay, "overlay")
       ELSE IF queue # <<>>
       THEN Called("peek_next", queue[PeekIndex(current_index, queue) + 1], "queue")
       ELSE IF auto_random
       THEN IF available_artworks = <<>>
            THEN Called("peek_next", None, "random")
            ELSE \E i \in 1..Len(available_artworks) :
                    Called("peek_next", available_artworks[i], "random")
       ELSE Called("peek_next", None, "none")
    /\ UNCHANGED <<queue, current_index, history, pending_overlay, shuffle, auto_random,
                   available_artworks, recently_shown, log, setArg, setValid>>

\* peek_next()
PeekNext ==
    /\ UNCHANGED <<driverVars, extraVars>>
    /\ IF pending_overlay # None
       THEN Called("peek_next", pending_overlay, "overlay")
       ELSE IF queue # <<>>
       THEN Called("peek_next", queue[PeekIndex(current_index, queue) + 1], "queue")
       ELSE IF auto_random
       THEN IF available_artworks = <<>>
            THEN Called("peek_next", None, "random")
            ELSE \E i \in 1..Len(RandomCandidates(available_artworks, recently_shown)) :
                    Called("peek_next",
                           RandomCandidates(available_artworks, recently_shown)[i], "random")
       ELSE Called("peek_next", None, "none")
    /\ UNCHANGED <<queue, current_index, history, pending_overlay, shuffle, auto_random,
                   available_artworks, recently_shown, log, setArg, setValid>>

\* get_current()
GetCurrent ==
    /\ UNCHANGED <<driverVars, extraVars>>
    /\ Called("get_current", IF history # <<>> THEN Last(history) ELSE None, "none")
    /\ UNCHANGED <<queue, current_index, history, pending_overlay, shuffle, auto_random,
                   available_artworks, recently_shown, log, setArg, setValid>>

\* add_overlay(artwork)
AddOverlay(artwork) ==
    /\ UNCHANGED <<driverVars, extraVars>>
    /\ IF ~HasContentId(artwork)
       THEN pending_overlay' = pending_overlay
       ELSE pending_overlay' = artwork
    /\ Returned("add_overlay", None, "none", artwork, <<>>)
    /\ UNCHANGED <<queue, current_index, history, shuffle, auto_random,
                   available_artworks, recently_shown, log, setArg, setValid>>

\* clear()
Clear ==
    /\ UNCHANGED <<driverVars, extraVars>>
    /\ queue' = <<>>
    /\ history' = <<>>
    /\ current_index' = -1
    /\ pending_overlay' = None
    /\ Called("clear", None, "none")
    /\ QueueChanged
    /\ UNCHANGED <<shuffle, auto_random, available_artworks, recently_shown>>

\* shuffle.setter
SetShuffleAlwaysMixes(value) ==
    /\ UNCHANGED <<driverVars, extraVars>>
    /\ shuffle' = value
    /\ IF queue # <<>>
       THEN queue' \in Shuffles(queue)
       ELSE queue' = queue
    /\ Called("set_shuffle", None, "none")
    /\ QueueChanged
    /\ UNCHANGED <<current_index, history, pending_overlay, auto_random,
                   available_artworks, recently_shown>>

\* the setter of `shuffle`
SetShuffle(value) ==
    /\ UNCHANGED <<driverVars, extraVars>>
    /\ shuffle' = value
    /\ IF value /\ queue # <<>>
       THEN queue' \in Shuffles(queue)
       ELSE queue' = queue
    /\ Called("set_shuffle", None, "none")
    /\ QueueChanged
    /\ UNCHANGED <<current_index, history, pending_overlay, auto_random,
                   available_artworks, recently_shown>>

\* set_available_artworks(artworks)
SetAvailableArtworks(artworks) ==
    /\ UNCHANGED <<driverVars, extraVars>>
    /\ available_artworks' = artworks
    /\ Called("set_available_artworks", None, "none")
    /\ UNCHANGED <<queue, current_index, history, pending_overlay, shuffle, auto_random,
                   recently_shown, log, setArg, setValid>>

\* set_auto_random(enabled)
SetAutoRandom(enabled) ==
    /\ UNCHANGED <<driverVars, extraVars>>
    /\ auto_random' = enabled
    /\ Called("set_auto_random", None, "none")
    /\ UNCHANGED <<queue, current_index, history, pending_overlay, shuffle,
                   available_artworks, recently_shown, log, setArg, setValid>>

\* content ids a caller may hand to remove_from_queue
IdInputs == {"a", "b", ""}

\* the queue is built, edited and played; no artwork list is loaded for random
\* selection and the preview methods are not called
Next ==
    \/ \E artwork \in Inputs : AddToQueue(artwork)
    \/ \E content_id \in IdInputs : RemoveFromQueue(content_id)
    \/ \E artworks \in QueueInputs : SetQueue(artworks)
    \/ GetNext
    \/ GetPrevious
    \/ \E artwork \in {ArtB, ArtNoId} : AddOverlay(artwork)
    \/ Clear
    \/ \E value \in BOOLEAN : SetShuffle(value)

Spec == Init /\ [][Next]_vars

\* the queue is replaced, extended and shuffled, and never played
NextShuffle ==
    \/ \E artworks \in QueueInputs : SetQueue(artworks)
    \/ \E value \in BOOLEAN : SetShuffle(value)
    \/ \E artwork \in Inputs : AddToQueue(artwork)

SpecShuffle == Init /\ [][NextShuffle]_vars

\* get_next(), called at most MaxPlays times since History was empty
PlayNext ==
    /\ Len(history) < MaxPlays
    /\ GetNextBody
    /\ UNCHANGED <<driverVars, extraVars>>

\* set_queue as the first call made
SetQueueOnce(artworks) ==
    /\ op = "init"
    /\ SetQueue(artworks)

\* three-artwork queues
OrderInputs == Shuffles(<<ArtA, ArtB, ArtC>>)

\* a queue of three artworks is set once, then played while artworks are removed
NextOrder ==
    \/ \E artworks \in OrderInputs : SetQueueOnce(artworks)
    \/ \E content_id \in {"a", "b", "c"} : RemoveFromQueue(content_id)
    \/ PlayNext

SpecOrder == Init /\ [][NextOrder]_vars

\* one queue, played forwards and backwards, with overlays and removals
NextBack ==
    \/ \E artworks \in QueueInputs : SetQueueOnce(artworks)
    \/ PlayNext
    \/ GetPrevious
    \/ \E artwork \in {ArtB, ArtNoId} : AddOverlay(artwork)
    \/ \E content_id \in IdInputs : RemoveFromQueue(content_id)

SpecBack == Init /\ [][NextBack]_vars

\* the available artworks are loaded and random selection is switched on and off;
\* the queue is edited one artwork at a time
NextRandom ==
    \/ \E artworks \in PoolInputs : SetAvailableArtworks(artworks)
    \/ \E enabled \in BOOLEAN : SetAutoRandom(enabled)
    \/ \E artwork \in PoolArtworks : AddToQueue(artwork)
    \/ \E content_id \in IdInputs : RemoveFromQueue(content_id)
    \/ GetNext
    \/ GetPrevious
    \/ PeekNext
    \/ GetCurrent
    \/ \E artwork \in OverlayInputs : AddOverlay(artwork)
    \/ Clear

SpecRandom == Init /\ [][NextRandom]_vars

\* as NextRandom, with previews and without the calls that read History
NextPeek ==
    \/ \E artworks \in PoolInputs : SetAvailableArtworks(artworks)
    \/ \E enabled \in BOOLEAN : SetAutoRandom(enabled)
    \/ \E artwork \in PoolArtworks : AddToQueue(artwork)
    \/ \E content_id \in IdInputs : RemoveFromQueue(content_id)
    \/ GetNext
    \/ PeekNext
    \/ \E artwork \in OverlayInputs : AddOverlay(artwork)
    \/ Clear

SpecPeek == Init /\ [][NextPeek]_vars

\* the queue is edited one artwork at a time, with content ids that differ in case
\* only, and played
NextEdit ==
    \/ \E artwork \in EditInputs : AddToQueue(artwork)
    \/ \E content_id \in IdInputs \cup {"A"} : RemoveFromQueue(content_id)
    \/ GetNext
    \/ GetPrevious
    \/ \E artwork \in {ArtB, ArtNoId} : AddOverlay(artwork)
    \/ Clear

SpecEdit == Init /\ [][NextEdit]_vars

\* ------------------------------------------------------ the switch entity
\* The model covers a switch constructed with a websocket that takes the
\* rotation commands; every `await` of a handler is a point where the other
\* handlers may run, and one call of each handler is in flight at a time.

\* the state of the queue manager and the record of its calls
managerVars == <<queue, current_index, history, pending_overlay, shuffle, auto_random,
                 available_artworks, recently_shown, op, ret, branch, arg, results,
                 log, setArg, setValid>>

\* artworks a provider offers: "id" and "source", no "content_id"
ExtX == [id |-> "x", source |-> "unsplash", title |-> "X"]
ExtY == [id |-> "y", source |-> "unsplash", title |-> "Y"]

Externals == {ExtX, ExtY}

\* how the download and the upload of one external artwork end
Outcomes == {"ok", "no_provider", "no_data", "no_content_id", "exception"}

\* the external artworks of one load, each with the way its upload ends
JobLists ==
    {jobs \in SeqsUpTo([artwork : Externals, outcome : Outcomes], Cardinality(Externals)) :
        \A i, j \in 1..Len(jobs) : jobs[i].artwork = jobs[j].artwork => i = j}

\* what get_content_list returns
TvLists == {<<>>, <<ArtA>>}

\* values the number entity accepts (minutes)
DurationInputs == {1, 2}

\* the content id upload_artwork returns for an uploaded artwork
TvContentId(id) == IF id = "x" THEN "tx" ELSE "ty"

\* uploaded_artwork: the copy with "content_id" and "original_id"
Uploaded(artwork) ==
    [id |-> artwork.id, source |-> artwork.source, title |-> artwork.title,
     content_id |-> TvContentId(artwork.id), original_id |-> artwork.id]

\* an upload loop that gives up all external artworks when one of them fails
UploadAllOrNothing(tv_artworks, jobs) ==
    IF \A i \in 1..Len(jobs) : jobs[i].outcome = "ok"
    THEN tv_artworks \o [i \in 1..Len(jobs) |-> Uploaded(jobs[i].artwork)]
    ELSE tv_artworks

\* the upload loop of _load_artworks: tv_artworks with every uploaded artwork appended
RECURSIVE UploadAll(_, _)
UploadAll(tv_artworks, jobs) ==
    IF jobs = <<>>
    THEN tv_artworks
    ELSE IF Head(jobs).outcome = "ok"
         THEN UploadAll(Append(tv_artworks, Uploaded(Head(jobs).artwork)), Tail(jobs))
         ELSE UploadAll(tv_artworks, Tail(jobs))

\* the available artworks _load_artworks leaves
LoadArtworks(tv, jobs) == UploadAll(Filtered(tv), jobs)

\* `self._duration * 60 if self._duration > 0 else 600`
Interval(d) == IF d > 0 THEN d * SECONDS_PER_MINUTE ELSE DEFAULT_INTERVAL

\* a restart that keeps the delay of the timer it replaces
RestartSameDelay(timer, d) == [state |-> "armed", delay |-> timer.delay]

\* _start_slideshow_timer: the old timer is cancelled, a new one armed
StartSlideshowTimer(timer, d) == [state |-> "armed", delay |-> Interval(d)]

\* `if self._cancel_timer: self._cancel_timer()`: the callbacks left
Cancelled(n, timer) == IF timer.state = "armed" THEN n - 1 ELSE n

\* a timer armed on top of the stored one
ArmedWithoutCancel(n, timer) == n + 1

\* the callbacks held once _start_slideshow_timer has run
Armed(n, timer) == Cancelled(n, timer) + 1

\* an id lookup that prefers the provider's id
ArtworkIdFromProvider(artwork) ==
    IF "id" \in DOMAIN artwork /\ artwork.id # ""
    THEN artwork.id
    ELSE artwork.content_id

\* `next_artwork.get("content_id") or next_artwork.get("id")`
ArtworkId(artwork) ==
    IF artwork.content_id # ""
    THEN artwork.content_id
    ELSE IF "id" \in DOMAIN artwork THEN artwork.id ELSE ""

\* the record of a step of the switch
Step(name) ==
    /\ dop' = name
    /\ loaded' = <<>>
    /\ selected' = IF adv_pc = "selecting" THEN selected ELSE <<>>
    /\ others' = (others \/ off_pc = "sending")

\* async_turn_on up to `await ... set_auto_rotation_status`
TurnOnStart(tv, jobs) ==
    /\ UNCHANGED extraVars
    /\ on_pc = "idle"
    /\ available_artworks # <<>> => (tv = <<>> /\ jobs = <<>>)
    /\ dop' = IF available_artworks # <<>> \/ LoadArtworks(tv, jobs) # <<>>
              THEN "turn_on_start" ELSE "turn_on_empty"
    /\ selected' = IF adv_pc = "selecting" THEN selected ELSE <<>>
    /\ others' = (others \/ off_pc = "sending")
    /\ IF available_artworks = <<>>
       THEN /\ available_artworks' = LoadArtworks(tv, jobs)
            /\ loaded' = <<[tv |-> tv, jobs |-> jobs]>>
            /\ Called("set_available_artworks", None, "none")
       ELSE /\ loaded' = <<>>
            /\ UNCHANGED <<available_artworks, op, ret, branch, arg, results>>
    /\ IF available_artworks' = <<>>
       THEN UNCHANGED <<is_on, cancel_timer, timers, on_pc, rotation>>
       ELSE IF \E i \in 1..Len(available_artworks') : available_artworks'[i].content_id # ""
            THEN /\ rotation' = <<duration>>
                 /\ on_pc' = "sending"
                 /\ UNCHANGED <<is_on, cancel_timer, timers>>
            ELSE /\ is_on' = TRUE
                 /\ cancel_timer' = StartSlideshowTimer(cancel_timer, duration)
                 /\ timers' = Armed(timers, cancel_timer)
                 /\ UNCHANGED <<on_pc, rotation>>
    /\ UNCHANGED <<queue, current_index, history, pending_overlay, shuffle, auto_random,
                   recently_shown, log, setArg, setValid, duration, off_pc, adv_pc>>

\* async_turn_on after the await
TurnOnFinish ==
    /\ UNCHANGED extraVars
    /\ on_pc = "sending"
    /\ is_on' = TRUE
    /\ cancel_timer' = StartSlideshowTimer(cancel_timer, duration)
    /\ timers' = Armed(timers, cancel_timer)
    /\ on_pc' = "idle"
    /\ Step("turn_on_done")
    /\ UNCHANGED <<managerVars, duration, off_pc, adv_pc, rotation>>

\* some async_turn_on is inside `await self._load_artworks()`, and every
\* async_turn_on that runs is
InterruptsLoad(calls) ==
    /\ \E t \in Tasks : calls[t].pc \in {"fetching", "loading"}
    /\ \A t \in Tasks : calls[t].pc \in {"idle", "fetching", "loading"}

\* async_turn_off up to `await ... set_auto_rotation_status`
TurnOffStart ==
    /\ UNCHANGED <<starts, uploads, provider_enabled, last_error, provider_artworks, pcall,
                   all_result, variant_on, variant_timer>>
    /\ interrupted' = InterruptsLoad(starts)
    /\ off_pc = "idle"
    /\ cancel_timer' = NoTimer
    /\ timers' = Cancelled(timers, cancel_timer)
    /\ rotation' = <<0>>
    /\ off_pc' = "sending"
    /\ dop' = "turn_off_start"
    /\ loaded' = <<>>
    /\ selected' = IF adv_pc = "selecting" THEN selected ELSE <<>>
    /\ others' = FALSE
    /\ UNCHANGED <<managerVars, is_on, duration, on_pc, adv_pc>>

\* async_turn_off after the await
TurnOffFinish ==
    /\ UNCHANGED extraVars
    /\ off_pc = "sending"
    /\ is_on' = FALSE
    /\ off_pc' = "idle"
    /\ dop' = "turn_off_done"
    /\ loaded' = <<>>
    /\ UNCHANGED <<managerVars, duration, cancel_timer, timers, on_pc, adv_pc, rotation,
                   selected, others>>

\* async_turn_off when the await raises: the except branch logs the error
TurnOffFails ==
    /\ UNCHANGED extraVars
    /\ off_pc = "sending"
    /\ off_pc' = "idle"
    /\ dop' = "turn_off_failed"
    /\ loaded' = <<>>
    /\ UNCHANGED <<managerVars, is_on, duration, cancel_timer, timers, on_pc, adv_pc, rotation,
                   selected, others>>

\* a callback that does not look at _is_on
StillOnAlways(on) == TRUE

\* `if self._is_on:` of _advance_slide
StillOn(on) == on

\* the timer fires: _advance_slide up to the await of the select_artwork call
AdvanceSlide ==
    /\ UNCHANGED extraVars
    /\ cancel_timer.state = "armed"
    /\ adv_pc = "idle"
    /\ loaded' = <<>>
    /\ IF ~StillOn(is_on)
       THEN /\ cancel_timer' = [cancel_timer EXCEPT !.state = "fired"]
            /\ timers' = timers - 1
            /\ dop' = "tick_off"
            /\ selected' = <<>>
            /\ UNCHANGED <<managerVars, adv_pc>>
       ELSE /\ GetNextStep
            /\ LET artwork_id == IF ret' = None THEN "" ELSE ArtworkId(ret')
               IN IF artwork_id = ""
                  THEN /\ selected' = <<>>
                       /\ cancel_timer' = StartSlideshowTimer(cancel_timer, duration)
                       /\ timers' = Armed(timers, cancel_timer)
                       /\ dop' = "advance_done"
                       /\ UNCHANGED adv_pc
                  ELSE \E ok \in BOOLEAN :
                       /\ selected' = <<[artwork_id |-> artwork_id, ok |-> ok]>>
                       /\ cancel_timer' = [cancel_timer EXCEPT !.state = "fired"]
                       /\ timers' = timers - 1
                       /\ dop' = "advance_slide"
                       /\ adv_pc' = "selecting"
    /\ UNCHANGED <<is_on, duration, on_pc, off_pc, rotation, others>>

\* an advance that gives the rotation up when the select_artwork call failed
AdvanceRearmUnlessFailed ==
    /\ UNCHANGED extraVars
    /\ adv_pc = "selecting"
    /\ IF selected[1].ok
       THEN /\ cancel_timer' = StartSlideshowTimer(cancel_timer, duration)
            /\ timers' = Armed(timers, cancel_timer)
            /\ UNCHANGED is_on
       ELSE /\ is_on' = FALSE
            /\ UNCHANGED <<cancel_timer, timers>>
    /\ adv_pc' = "idle"
    /\ dop' = "advance_done"
    /\ loaded' = <<>>
    /\ UNCHANGED <<managerVars, duration, on_pc, off_pc, rotation, selected, others>>

\* _advance_slide after the await: `self._start_slideshow_timer()`
AdvanceRearm ==
    /\ UNCHANGED extraVars
    /\ adv_pc = "selecting"
    /\ cancel_timer' = StartSlideshowTimer(cancel_timer, duration)
    /\ timers' = Armed(timers, cancel_timer)
    /\ adv_pc' = "idle"
    /\ dop' = "advance_done"
    /\ loaded' = <<>>
    /\ UNCHANGED <<managerVars, is_on, duration, on_pc, off_pc, rotation, selected, others>>

\* SlideshowIntervalNumber.async_set_native_value(value)
SetInterval(value) ==
    /\ UNCHANGED extraVars
    /\ duration' = value
    /\ cancel_timer' = IF is_on
                       THEN StartSlideshowTimer(cancel_timer, value)
                       ELSE cancel_timer
    /\ timers' = IF is_on THEN Armed(timers, cancel_timer) ELSE timers
    /\ Step("set_interval")
    /\ UNCHANGED <<managerVars, is_on, on_pc, off_pc, adv_pc, rotation>>

\* the switch with its timer, the interval number and the queue manager behind them
NextDriver ==
    \/ \E jobs \in {<<>>, <<[artwork |-> ExtX, outcome |-> "ok"]>>} :
            TurnOnStart(<<ArtA>>, jobs)
    \/ TurnOnFinish
    \/ TurnOffStart
    \/ TurnOffFinish
    \/ TurnOffFails
    \/ AdvanceSlide
    \/ AdvanceRearm
    \/ \E value \in DurationInputs : SetInterval(value)
    \/ \E enabled \in BOOLEAN : SetAutoRandom(enabled)
    \/ AddToQueue(ArtB)

SpecDriver == Init /\ [][NextDriver]_vars

\* the switch turned on and off and its timer, with every kind of load
NextLoad ==
    \/ \E tv \in TvLists, jobs \in JobLists : TurnOnStart(tv, jobs)
    \/ TurnOnFinish
    \/ TurnOffStart
    \/ TurnOffFinish
    \/ AdvanceSlide
    \/ AdvanceRearm

SpecLoad == Init /\ [][NextLoad]_vars

\* ------------------------------------------- async_turn_on, await by await
\* Two async_turn_on calls may be in flight at once (the switch takes no lock
\* and declares no PARALLEL_UPDATES).  Each call keeps its own tv_artworks list
\* and hands it to set_available_artworks after every upload.

\* the loads a start may meet: what the TV lists and how the upload of X ends
StartJobLists ==
    {<<>>, <<[artwork |-> ExtX, outcome |-> "ok"]>>,
           <<[artwork |-> ExtX, outcome |-> "exception"]>>}

\* one more upload stored on the TV
CountedAgain(count) == IF count = "never" THEN "once" ELSE "again"

\* the record of a step of a start
StartStep(name) ==
    /\ dop' = name
    /\ loaded' = <<>>
    /\ selected' = <<>>
    /\ others' = (others \/ off_pc = "sending")

\* async_turn_on after the load: the rotation command is sent, or the switch is
\* on at once when no artwork carries a content id
AfterLoad(t) ==
    IF \E i \in 1..Len(available_artworks) : available_artworks[i].content_id # ""
    THEN /\ rotation' = <<duration>>
         /\ starts' = [starts EXCEPT ![t].pc = "sending"]
         /\ StartStep("turn_on_start")
         /\ UNCHANGED <<is_on, cancel_timer, timers>>
    ELSE /\ is_on' = TRUE
         /\ cancel_timer' = StartSlideshowTimer(cancel_timer, duration)
         /\ timers' = Armed(timers, cancel_timer)
         /\ starts' = [starts EXCEPT ![t] = IdleStart]
         /\ StartStep("turn_on_done")
         /\ UNCHANGED rotation

\* async_turn_on up to its first await: `if not self._queue_manager._available_artworks`
StartCheck(t) ==
    /\ starts[t].pc = "idle"
    /\ interrupted' = FALSE
    /\ IF available_artworks = <<>>
       THEN /\ starts' = [starts EXCEPT ![t].pc = "fetching"]
            /\ StartStep("turn_on_check")
            /\ UNCHANGED <<is_on, cancel_timer, timers, rotation>>
       ELSE AfterLoad(t)
    /\ UNCHANGED <<managerVars, duration, on_pc, off_pc, adv_pc, uploads, provider_enabled,
                   last_error, provider_artworks, pcall, all_result, variant_on,
                   variant_timer>>

\* _load_artworks once the TV and the providers have answered:
\* `self._queue_manager.set_available_artworks(tv_artworks)`
StartFetched(t, tv, jobs) ==
    /\ starts[t].pc = "fetching"
    /\ available_artworks' = Filtered(tv)
    /\ starts' = [starts EXCEPT ![t] = [pc |-> "loading", tv_artworks |-> Filtered(tv),
                                        todo |-> jobs]]
    /\ Called("set_available_artworks", None, "none")
    /\ StartStep("turn_on_fetched")
    /\ UNCHANGED <<queue, current_index, history, pending_overlay, shuffle, auto_random,
                   recently_shown, log, setArg, setValid, is_on, duration, cancel_timer, timers,
                   on_pc, off_pc, adv_pc, rotation, uploads, provider_enabled, last_error,
                   provider_artworks, pcall, all_result, variant_on, variant_timer, interrupted>>

\* one round of the upload loop of _load_artworks
StartUpload(t) ==
    /\ starts[t].pc = "loading"
    /\ starts[t].todo # <<>>
    /\ LET job == Head(starts[t].todo)
           tv_artworks == Append(starts[t].tv_artworks, Uploaded(job.artwork))
       IN IF job.outcome = "ok"
          THEN /\ starts' = [starts EXCEPT ![t].tv_artworks = tv_artworks,
                                           ![t].todo = Tail(starts[t].todo)]
               /\ available_artworks' = tv_artworks
               /\ uploads' = [uploads EXCEPT ![job.artwork.id] = CountedAgain(@)]
               /\ Called("set_available_artworks", None, "none")
          ELSE /\ starts' = [starts EXCEPT ![t].todo = Tail(starts[t].todo)]
               /\ UNCHANGED <<available_artworks, uploads, op, ret, branch, arg, results>>
    /\ StartStep("turn_on_upload")
    /\ UNCHANGED <<queue, current_index, history, pending_overlay, shuffle, auto_random,
                   recently_shown, log, setArg, setValid, is_on, duration, cancel_timer, timers,
                   on_pc, off_pc, adv_pc, rotation, provider_enabled, last_error,
                   provider_artworks, pcall, all_result, variant_on, variant_timer, interrupted>>

\* async_turn_on when _load_artworks has returned
StartLoaded(t) ==
    /\ starts[t].pc = "loading"
    /\ starts[t].todo = <<>>
    /\ IF available_artworks = <<>>
       THEN /\ starts' = [starts EXCEPT ![t] = IdleStart]
            /\ StartStep("turn_on_empty")
            /\ UNCHANGED <<is_on, cancel_timer, timers, rotation>>
       ELSE AfterLoad(t)
    /\ UNCHANGED <<managerVars, duration, on_pc, off_pc, adv_pc, uploads, provider_enabled,
                   last_error, provider_artworks, pcall, all_result, variant_on,
                   variant_timer, interrupted>>

\* async_turn_on after the rotation command has returned
StartFinish(t) ==
    /\ starts[t].pc = "sending"
    /\ is_on' = TRUE
    /\ cancel_timer' = StartSlideshowTimer(cancel_timer, duration)
    /\ timers' = Armed(timers, cancel_timer)
    /\ starts' = [starts EXCEPT ![t] = IdleStart]
    /\ StartStep("turn_on_done")
    /\ UNCHANGED <<managerVars, duration, on_pc, off_pc, adv_pc, rotation, uploads,
                   provider_enabled, last_error, provider_artworks, pcall, all_result,
                   variant_on, variant_timer, interrupted>>

\* a start that turns the switch on although its rotation command raised
StartFailsButOn(t) ==
    /\ starts[t].pc = "sending"
    /\ is_on' = TRUE
    /\ cancel_timer' = StartSlideshowTimer(cancel_timer, duration)
    /\ timers' = Armed(timers, cancel_timer)
    /\ starts' = [starts EXCEPT ![t] = IdleStart]
    /\ StartStep("turn_on_failed")
    /\ UNCHANGED <<managerVars, duration, on_pc, off_pc, adv_pc, rotation, uploads,
                   provider_enabled, last_error, provider_artworks, pcall, all_result,
                   variant_on, variant_timer, interrupted>>

\* async_turn_on when the rotation command raises: `except Exception`
StartFails(t) ==
    /\ starts[t].pc = "sending"
    /\ starts' = [starts EXCEPT ![t] = IdleStart]
    /\ StartStep("turn_on_failed")
    /\ UNCHANGED <<managerVars, is_on, duration, cancel_timer, timers, on_pc, off_pc, adv_pc,
                   rotation, uploads, provider_enabled, last_error, provider_artworks,
                   pcall, all_result, variant_on, variant_timer, interrupted>>

\* starts that overlap, and stops
NextStart ==
    \/ \E t \in Tasks : StartCheck(t)
    \/ \E t \in Tasks, tv \in TvLists, jobs \in StartJobLists : StartFetched(t, tv, jobs)
    \/ \E t \in Tasks : StartUpload(t)
    \/ \E t \in Tasks : StartLoaded(t)
    \/ \E t \in Tasks : StartFinish(t)
    \/ \E t \in Tasks : StartFails(t)
    \/ TurnOffStart
    \/ TurnOffFinish

SpecStart == Init /\ [][NextStart]_vars

\* ------------------------------------------- slideshow.py switch and buttons
\* number.py sets up the entities of slideshow.py, whose SlideshowSwitch shares
\* the queue manager with the switch of switch.py and with the buttons of
\* button.py.  Each handler of this section is taken as one step.

\* an artwork as a provider lists it: "id", and no "content_id"
Raw(artwork) ==
    [id |-> artwork.id, source |-> artwork.source, title |-> artwork.title, content_id |-> ""]

\* what async_load_all_artworks hands to the load of slideshow.py
RawLists == {<<>>, <<Raw(ExtX)>>}

\* SlideshowSwitch._load_artworks of slideshow.py
VariantLoad(tv, raw) == tv \o raw

\* SlideshowSwitch.async_turn_on of slideshow.py
VariantTurnOn(tv, raw) ==
    /\ available_artworks # <<>> => (tv = <<>> /\ raw = <<>>)
    /\ IF available_artworks = <<>>
       THEN /\ available_artworks' = VariantLoad(tv, raw)
            /\ Called("set_available_artworks", None, "none")
       ELSE UNCHANGED <<available_artworks, op, ret, branch, arg, results>>
    /\ IF available_artworks' = <<>>
       THEN /\ Step("variant_on_empty")
            /\ UNCHANGED <<variant_on, variant_timer, rotation>>
       ELSE /\ Step("variant_on")
            /\ variant_on' = TRUE
            /\ variant_timer' = TRUE
            /\ rotation' = IF \E i \in 1..Len(available_artworks') :
                                  available_artworks'[i].content_id # ""
                           THEN <<duration>>
                           ELSE rotation
    /\ UNCHANGED <<queue, current_index, history, pending_overlay, shuffle, auto_random,
                   recently_shown, log, setArg, setValid>>
    /\ UNCHANGED <<is_on, duration, cancel_timer, timers, on_pc, off_pc, adv_pc>>
    /\ UNCHANGED <<starts, interrupted, uploads, provider_enabled, last_error, provider_artworks, pcall,
                   all_result>>

\* the timer of slideshow.py fires: _advance_slide with _advance_to_next
VariantAdvance ==
    /\ variant_timer
    /\ IF ~variant_on
       THEN /\ variant_timer' = FALSE
            /\ Step("variant_tick_off")
            /\ UNCHANGED managerVars
       ELSE /\ GetNextStep
            /\ variant_timer' = TRUE
            /\ dop' = "variant_advance"
            /\ loaded' = <<>>
            /\ others' = others
            /\ IF ret' # None /\ ret'.content_id # ""
               THEN \E ok \in BOOLEAN :
                        selected' = <<[artwork_id |-> ret'.content_id, ok |-> ok]>>
               ELSE selected' = <<>>
    /\ UNCHANGED <<is_on, duration, cancel_timer, timers, on_pc, off_pc, adv_pc, rotation>>
    /\ UNCHANGED <<starts, interrupted, uploads, provider_enabled, last_error, provider_artworks, pcall,
                   all_result, variant_on>>

\* SlideshowSwitch.async_turn_off of slideshow.py
VariantTurnOff ==
    /\ variant_timer' = FALSE
    /\ rotation' = <<0>>
    /\ variant_on' = FALSE
    /\ Step("variant_off")
    /\ UNCHANGED <<managerVars, is_on, duration, cancel_timer, timers, on_pc, off_pc, adv_pc>>
    /\ UNCHANGED <<starts, interrupted, uploads, provider_enabled, last_error, provider_artworks, pcall,
                   all_result>>

\* the select_artwork call of a button for the artwork the manager returned
ButtonSelects(name) ==
    /\ dop' = name
    /\ loaded' = <<>>
    /\ IF ret' # None /\ ArtworkId(ret') # ""
       THEN \E ok \in BOOLEAN : selected' = <<[artwork_id |-> ArtworkId(ret'), ok |-> ok]>>
       ELSE selected' = <<>>
    /\ UNCHANGED <<is_on, duration, cancel_timer, timers, on_pc, off_pc, adv_pc, rotation, others>>
    /\ UNCHANGED extraVars

\* SlideshowNextButton.async_press
PressNext ==
    /\ GetNextStep
    /\ ButtonSelects("press_next")

\* SlideshowPreviousButton.async_press
PressPrevious ==
    /\ GetPreviousStep
    /\ ButtonSelects("press_previous")

\* both switches, the buttons and the automatic random selection
NextButtons ==
    \/ \E tv \in TvLists, raw \in RawLists : VariantTurnOn(tv, raw)
    \/ VariantAdvance
    \/ VariantTurnOff
    \/ PressNext
    \/ PressPrevious
    \/ \E enabled \in BOOLEAN : SetAutoRandom(enabled)
    \/ TurnOnStart(<<>>, <<>>)
    \/ TurnOnFinish
    \/ AdvanceSlide
    \/ AdvanceRearm

SpecButtons == Init /\ [][NextButtons]_vars

\* ------------------------------------------------------- a long rotation
\* History and Recently-Shown at their capacities: a catalogue of
\* RECENT_MAXLEN + 1 artworks is shown in order by random selection, one
\* artwork being available at a time.

CatalogueIds == 0..RECENT_MAXLEN

\* the i-th artwork of the catalogue
NumArt(i) == [content_id |-> ToString(i), title |-> "N"]

\* the artwork of the catalogue that follows the one shown last
NextInCatalogue ==
    IF recently_shown = <<>>
    THEN 0
    ELSE ((CHOOSE i \in CatalogueIds : ToString(i) = Last(recently_shown)) + 1)
            % (RECENT_MAXLEN + 1)

\* set_available_artworks with the next artwork of the catalogue
FifoLoad ==
    \E i \in CatalogueIds :
        /\ i = NextInCatalogue
        /\ SetAvailableArtworks(<<NumArt(i)>>)

\* get_next() drawing the available artwork
FifoShow ==
    /\ auto_random
    /\ available_artworks = <<NumArt(NextInCatalogue)>>
    /\ GetNextBody
    /\ UNCHANGED <<driverVars, extraVars>>

NextFifo ==
    \/ SetAutoRandom(TRUE)
    \/ FifoLoad
    \/ FifoShow

SpecFifo == Init /\ [][NextFifo]_vars

\* ------------------------------------------------------------- providers
\* ArtworkProvider and ProviderRegistry (providers/__init__.py) with the loads
\* of the three providers.  A load ends in one of three ways: "ok", it returns
\* the artworks it found; "failed", a network or filesystem error is caught
\* inside async_load_artworks, which returns []; "raised", an error escapes
\* async_load_artworks.

\* `name` of a provider
Name(p) ==
    IF p = "media_folder" THEN "Media Folder"
    ELSE IF p = "google_arts" THEN "Google Arts & Culture"
    ELSE "Bing Wallpapers"

\* an artwork a provider finds
ProviderArt(p) == [id |-> p, source |-> Name(p), title |-> "T"]

\* how a load of provider p may end
LoadOutcomes(p) ==
    {[kind |-> "ok", artworks |-> <<>>], [kind |-> "ok", artworks |-> <<ProviderArt(p)>>],
     [kind |-> "failed", artworks |-> <<>>], [kind |-> "raised", artworks |-> <<>>]}

\* a load that was not run
NotRun == [kind |-> "skipped", artworks |-> <<>>]

\* the record of a provider call
ProviderCalled(name, p, outcome) ==
    /\ pcall' = [op |-> name, provider |-> p, outcome |-> outcome.kind]
    /\ all_result' = <<>>

\* ArtworkProvider.async_initialize, `configured` being is_enabled()
Initialize(p, configured, outcome) ==
    /\ ~configured => outcome = NotRun
    /\ configured => outcome \in LoadOutcomes(p)
    /\ IF ~configured
       THEN /\ provider_enabled' = [provider_enabled EXCEPT ![p] = FALSE]
            /\ UNCHANGED <<provider_artworks, last_error>>
       ELSE IF outcome.kind # "raised"
       THEN /\ provider_enabled' = [provider_enabled EXCEPT ![p] = TRUE]
            /\ provider_artworks' = [provider_artworks EXCEPT ![p] = outcome.artworks]
            /\ last_error' = [last_error EXCEPT ![p] = ""]
       ELSE /\ provider_enabled' = [provider_enabled EXCEPT ![p] = FALSE]
            /\ last_error' = [last_error EXCEPT ![p] = "error"]
            /\ UNCHANGED provider_artworks
    /\ ProviderCalled("initialize", p, outcome)
    /\ UNCHANGED <<managerVars, driverVars, starts, interrupted, uploads, variant_on, variant_timer>>

\* ArtworkProvider.async_refresh
Refresh(p, outcome) ==
    /\ ~provider_enabled[p] => outcome = NotRun
    /\ provider_enabled[p] => outcome \in LoadOutcomes(p)
    /\ IF ~provider_enabled[p]
       THEN UNCHANGED <<provider_artworks, last_error>>
       ELSE IF outcome.kind # "raised"
       THEN /\ provider_artworks' = [provider_artworks EXCEPT ![p] = outcome.artworks]
            /\ last_error' = [last_error EXCEPT ![p] = ""]
       ELSE /\ last_error' = [last_error EXCEPT ![p] = "error"]
            /\ UNCHANGED provider_artworks
    /\ ProviderCalled("refresh", p, outcome)
    /\ UNCHANGED <<managerVars, driverVars, starts, interrupted, uploads, provider_enabled,
                   variant_on, variant_timer>>

\* get_enabled_providers()
EnabledProviders(en) == {p \in Providers : en[p]}

\* an aggregation that gives up when one load raises
LoadAllOrNothing(en, outcomes) ==
    IF \E p \in EnabledProviders(en) : outcomes[p].kind = "raised"
    THEN [n \in {} |-> <<>>]
    ELSE [n \in {Name(p) : p \in EnabledProviders(en)} |->
            outcomes[CHOOSE p \in EnabledProviders(en) : Name(p) = n].artworks]

\* the dict async_load_all_artworks builds, by provider name
LoadAllResult(en, outcomes) ==
    [n \in {Name(p) : p \in EnabledProviders(en)} |->
        LET p == CHOOSE q \in EnabledProviders(en) : Name(q) = n
        IN IF outcomes[p].kind = "raised" THEN <<>> ELSE outcomes[p].artworks]

\* ProviderRegistry.async_load_all_artworks
LoadAll(outcomes) ==
    /\ \A p \in Providers : IF provider_enabled[p]
                            THEN outcomes[p] \in LoadOutcomes(p)
                            ELSE outcomes[p] = NotRun
    /\ pcall' = [op |-> "load_all", provider |-> "all", outcome |-> "none"]
    /\ all_result' = <<[result |-> LoadAllResult(provider_enabled, outcomes),
                        produced |-> outcomes]>>
    /\ UNCHANGED <<managerVars, driverVars, starts, interrupted, uploads, provider_enabled,
                   provider_artworks, last_error, variant_on, variant_timer>>

\* async_get_artwork_data gets past its lookup: BingWallpaperProvider and
\* GoogleArtsProvider search `self._artworks` for the id ("Artwork not found"
\* otherwise), MediaFolderProvider opens the id as a path and consults no catalog
KnowsId(p, catalog, id) ==
    IF p = "media_folder"
    THEN TRUE
    ELSE \E i \in 1..Len(catalog) : catalog[i].id = id

\* the providers initialised, refreshed and loaded in any order
NextProviders ==
    \/ \E p \in Providers : \E configured \in BOOLEAN, outcome \in LoadOutcomes(p) \cup {NotRun} :
            Initialize(p, configured, outcome)
    \/ \E p \in Providers : \E outcome \in LoadOutcomes(p) \cup {NotRun} : Refresh(p, outcome)
    \/ \E outcomes \in [Providers -> UNION {LoadOutcomes(p) : p \in Providers} \cup {NotRun}] :
            LoadAll(outcomes)

SpecProviders == Init /\ [][NextProviders]_vars

\* ------------------------------------------------------------- properties
NoRepeat(s) == \A i, j \in 1..Len(s) : s[i] = s[j] => i = j

\* what get_next returns when no overlay is pending
NormalNext ==
    IF queue # <<>>
    THEN {queue[NextIndex(current_index, queue) + 1]}
    ELSE IF auto_random /\ available_artworks # <<>>
         THEN Range(RandomCandidates(available_artworks, recently_shown))
         ELSE {None}

\* the state the normal selection of get_next reads
selection == <<queue, current_index, shuffle, auto_random, available_artworks, recently_shown>>

\* C1: after set_queue(L), L with unique ids, the first len(L) get_next calls
\* (no overlay pending, queue not touched) return pairwise distinct elements of L,
\* all of L once len(L) calls are made, and in the order of L when shuffle is off.
C1_SetQueueThenPlay ==
    (setValid /\ Len(log) <= Len(setArg)) =>
        /\ NoRepeat(log)
        /\ Range(log) \subseteq Range(setArg)
        /\ (Len(log) = Len(setArg) => Range(log) = Range(setArg))
        /\ (~shuffle => log = SubSeq(setArg, 1, Len(log)))

\* all of a longest list has been played, in an order that is not the list's
C1_Witness ==
    /\ setValid
    /\ Len(setArg) = MaxLen
    /\ Len(log) = MaxLen
    /\ log # setArg

\* C2: add_overlay(X), X carrying a content id, fills the slot with X; a get_next
\* that finds the slot filled returns its artwork, empties the slot and leaves the
\* queue, the cursor, the pool, auto-random and the recently-shown list as they
\* were; the get_next right after it does not take the overlay branch again and
\* returns what the normal selection gives in that state.
C2_OverlayOneShot ==
    [][ /\ (op' = "add_overlay" /\ HasContentId(arg')) => pending_overlay' = arg'
        /\ (op' = "get_next" /\ pending_overlay # None) =>
                /\ ret' = pending_overlay
                /\ branch' = "overlay"
                /\ pending_overlay' = None
                /\ selection' = selection
        /\ (op = "add_overlay" /\ HasContentId(arg) /\ op' = "get_next") => ret' = arg
        /\ (op = "get_next" /\ branch = "overlay" /\ op' = "get_next") =>
                /\ branch' # "overlay"
                /\ ret' \in NormalNext
      ]_vars

\* the overlay has been returned ahead of a non-empty, partly played queue
C2_Witness ==
    /\ op = "get_next"
    /\ branch = "overlay"
    /\ ret = ArtA2
    /\ pending_overlay = None
    /\ queue # <<>>
    /\ current_index >= 0

\* C3: every non-null artwork get_next returns is the last entry of History when
\* the call returns, so that get_current gives it back.
C3_ResultInHistory ==
    (op = "get_next" /\ ret # None) => (history # <<>> /\ Last(history) = ret)

\* C4: with auto-random on, the queue empty and at least two artworks with
\* distinct ids in the pool, two get_next calls in a row never return the same
\* artwork.
C4_NoImmediateRepeat ==
    [][ ( /\ op = "get_next" /\ branch = "random" /\ ret # None
          /\ op' = "get_next" /\ branch' = "random"
          /\ Len(available_artworks) >= 2
          /\ UniqueIds(available_artworks) ) => ret' # ret
      ]_vars

\* C5: peek_next leaves the queue, the cursor, History, the recently-shown list
\* and the pending overlay as they were, in each of its branches.
C5_PeekChangesNothing ==
    [][ op' = "peek_next" =>
            UNCHANGED <<queue, current_index, history, recently_shown, pending_overlay>>
      ]_vars

\* a preview was drawn at random while some artworks were marked recently shown
C5_Witness ==
    /\ op = "peek_next"
    /\ branch = "random"
    /\ ret # None
    /\ recently_shown # <<>>

\* C6: while an overlay is pending or the queue is non-empty, a peek_next that
\* follows a peek_next returns the same artwork, and a get_next that follows a
\* peek_next returns the artwork that was previewed.
C6_PeekIsNext ==
    [][ ( /\ op = "peek_next"
          /\ pending_overlay # None \/ queue # <<>>
          /\ op' \in {"peek_next", "get_next"} ) => ret' = ret
      ]_vars

\* the preview came from a queue of two or more that has been partly played
C6_Witness ==
    /\ op = "peek_next"
    /\ branch = "queue"
    /\ Len(queue) >= 2
    /\ current_index >= 0

\* C7: get_previous with n >= 2 History entries returns the entry before the
\* current one and leaves n-1 entries, of which it is the last; and a
\* get_previous that follows two get_next calls returns what the first of the
\* two returned.
C7_WalksBack ==
    [][ /\ (op' = "get_previous" /\ Len(history) >= 2) =>
                /\ ret' = history[Len(history) - 1]
                /\ history' = Front(history)
                /\ Last(history') = ret'
        /\ (op' = "get_previous" /\ Len(results) = 2) => ret' = results[1]
      ]_vars

\* C8: get_previous with fewer than two History entries returns None and keeps
\* History as it is.
C8_PreviousNeedsTwo ==
    [][ (op' = "get_previous" /\ Len(history) < 2) => (ret' = None /\ history' = history)
      ]_vars

\* get_previous was refused with the one entry of the first get_next in History
C8_Witness ==
    /\ op = "get_previous"
    /\ ret = None
    /\ Len(history) = 1

\* C9: with a queue of n >= 1 artworks that is not modified and no overlay taken,
\* a get_next returns what the get_next n calls earlier returned.
C9_CursorWraps ==
    (Len(queue) >= 1 /\ Len(log) > Len(queue)) => log[Len(log)] = log[Len(log) - Len(queue)]

\* a longest set_queue list has been played once round and one further
C9_Witness ==
    /\ Len(queue) = MaxLen
    /\ Len(queue) >= 2
    /\ Len(log) = MaxLen + 1
    /\ NoRepeat(queue)

\* C11: add_to_queue appends its artwork at the end of the queue exactly when the
\* artwork carries a content id that no queued artwork has (ids compared exactly,
\* case included); otherwise the queue is as it was; the cursor, History and the
\* pending overlay are never touched.
C11_EnqueueDedup ==
    [][ op' = "add_to_queue" =>
            /\ IF /\ HasContentId(arg')
                  /\ \A i \in 1..Len(queue) : queue[i].content_id # arg'.content_id
               THEN queue' = Append(queue, arg')
               ELSE queue' = queue
            /\ UNCHANGED <<current_index, history, pending_overlay>>
      ]_vars

\* an artwork whose id differs only in case from a queued one has been appended
\* to a partly played queue
C11_Witness ==
    /\ op = "add_to_queue"
    /\ arg = ArtUpper
    /\ Len(queue) >= 2
    /\ Last(queue) = ArtUpper
    /\ "a" \in IdsOf(queue)
    /\ current_index >= 0

\* C12: set_queue puts the cursor before the first element whatever it was; with
\* no overlay pending, the get_next that follows set_queue returns the first
\* element of the queue set_queue left.
C12_SetQueueResetsCursor ==
    [][ /\ op' = "set_queue" => current_index' = -1
        /\ (op = "set_queue" /\ op' = "get_next" /\ pending_overlay = None /\ queue # <<>>)
                => (ret' = queue[1] /\ current_index' = 0)
      ]_vars

\* the first element of a new queue of two was returned after an earlier queue
\* had been played
C12_Witness ==
    /\ op = "get_next"
    /\ setValid
    /\ Len(log) = 1
    /\ Len(queue) = 2
    /\ ret = queue[1]
    /\ Len(history) = 2

\* C13: remove_from_queue(id) returns true exactly when some queued artwork has
\* that id; the first such artwork is then removed and the others keep their
\* order; otherwise it returns false and the queue is as it was.
C13_Dequeue ==
    [][ op' = "remove_from_queue" =>
            IF \E i \in 1..Len(queue) : queue[i].content_id = arg'.content_id
            THEN /\ ret' = TRUE
                 /\ \E i \in 1..Len(queue) :
                        /\ queue[i].content_id = arg'.content_id
                        /\ \A j \in 1..(i - 1) : queue[j].content_id # arg'.content_id
                        /\ queue' = [k \in 1..(Len(queue) - 1) |->
                                        IF k < i THEN queue[k] ELSE queue[k + 1]]
            ELSE /\ ret' = FALSE
                 /\ queue' = queue
      ]_vars

\* an artwork was removed from a queue and the other one stayed behind
C13_Witness ==
    /\ op = "remove_from_queue"
    /\ ret = TRUE
    /\ arg.content_id = "a"
    /\ queue = <<ArtB>>
    /\ current_index >= 0

\* C14: with no overlay pending, the queue empty, auto-random on and a non-empty
\* pool, get_next returns a member of the pool; when every id of the pool is in
\* the recently-shown list, the list is cleared before the pick, so that it holds
\* the id of the pick and nothing else.
C14_RandomNeverStuck ==
    [][ ( /\ op' = "get_next"
          /\ pending_overlay = None
          /\ queue = <<>>
          /\ auto_random
          /\ available_artworks # <<>> ) =>
            /\ ret' \in Range(available_artworks)
            /\ (IdsOf(available_artworks) \subseteq Range(recently_shown))
                    => recently_shown' = <<ret'.content_id>>
      ]_vars

\* the artwork picked at random was picked again by the next call, which a pool
\* of two allows only through the reset
C14_Witness ==
    /\ op = "get_next"
    /\ branch = "random"
    /\ queue = <<>>
    /\ results = <<ArtA, ArtA>>
    /\ Len(available_artworks) = 2
    /\ recently_shown = <<"a">>

\* C15: with no overlay pending and the queue empty, get_next returns None and
\* leaves History, the cursor and the recently-shown list as they were when
\* auto-random is off, and also when it is on and the pool is empty.
C15_NothingToShow ==
    [][ ( /\ op' = "get_next"
          /\ pending_overlay = None
          /\ queue = <<>>
          /\ ~auto_random \/ available_artworks = <<>> ) =>
            /\ ret' = None
            /\ UNCHANGED <<history, current_index, recently_shown>>
      ]_vars

\* None was returned with auto-random off although the pool holds artworks, some
\* of them shown before
C15_Witness ==
    /\ op = "get_next"
    /\ ret = None
    /\ branch = "none"
    /\ ~auto_random
    /\ available_artworks # <<>>
    /\ history # <<>>
    /\ recently_shown # <<>>

\* C16: when async_turn_off has completed and nothing but a timer-driven advance
\* ran in between, the slideshow is off, no timer is armed and the rotation
\* command sent last has interval 0.
C16_StopLeavesNothingRunning ==
    (dop = "turn_off_done" /\ ~others) =>
        /\ ~is_on
        /\ cancel_timer.state # "armed"
        /\ rotation = <<0>>

\* C17: an advance that completes while the slideshow is on leaves one timer
\* armed, with the delay of the interval set at that moment.
C17_RearmsWithCurrentInterval ==
    [][ (dop' = "advance_done" /\ is_on) =>
            cancel_timer' = [state |-> "armed", delay |-> duration * 60]
      ]_vars

\* an advance completed after the interval had been set to two minutes
C17_Witness ==
    /\ dop = "advance_done"
    /\ is_on
    /\ selected # <<>>
    /\ duration = 2
    /\ cancel_timer = [state |-> "armed", delay |-> 120]

\* C18: a select_artwork call that fails leaves the slideshow as it is, when the
\* call is made and when the advance completes, and the advance completes with a
\* timer armed for the next tick.
C18_SelectFailureKeepsRotating ==
    [][ /\ (adv_pc = "idle" /\ adv_pc' = "selecting") => is_on' = is_on
        /\ (adv_pc = "selecting" /\ adv_pc' = "idle" /\ ~selected[1].ok) =>
                /\ is_on' = is_on
                /\ cancel_timer'.state = "armed"
                /\ cancel_timer'.delay > 0
      ]_vars

\* the second advance of a slideshow failed to select its artwork and completed
C18_Witness ==
    /\ dop = "advance_done"
    /\ selected # <<>>
    /\ ~selected[1].ok
    /\ is_on
    /\ cancel_timer.state = "armed"
    /\ Len(history) = 2

LoadedAsClaimed ==
    LET jobs == loaded'[1].jobs
        tv == loaded'[1].tv
        pool == available_artworks'
    IN /\ \A i \in 1..Len(jobs) :
            (jobs[i].outcome = "ok") <=>
                \E k \in 1..Len(pool) :
                    /\ "original_id" \in DOMAIN pool[k]
                    /\ pool[k].original_id = jobs[i].artwork.id
                    /\ pool[k].content_id = TvContentId(jobs[i].artwork.id)
                    /\ pool[k].title = jobs[i].artwork.title
       /\ \A i \in 1..Len(tv) : \E k \in 1..Len(pool) : pool[k] = tv[i]

\* a load in which the upload of some external artwork failed
LoadWithFailure ==
    /\ \E tv \in TvLists, jobs \in JobLists : TurnOnStart(tv, jobs)
    /\ loaded' # <<>>
    /\ \E i \in 1..Len(loaded'[1].jobs) : loaded'[1].jobs[i].outcome # "ok"

C21_UploadedAtMostOnce ==
    \A id \in DOMAIN uploads : uploads[id] # "again"

\* C22: async_load_all_artworks returns an entry for every enabled provider
\* and for no other: the list the provider's load returned, and the empty list
\* for a provider whose load raised.
C22_LoadAllKeepsTheOthers ==
    all_result # <<>> =>
        /\ DOMAIN all_result[1].result = {Name(p) : p \in EnabledProviders(provider_enabled)}
        /\ \A p \in EnabledProviders(provider_enabled) :
                all_result[1].result[Name(p)] =
                    IF all_result[1].produced[p].kind = "ok"
                    THEN all_result[1].produced[p].artworks
                    ELSE <<>>

\* one load raised, one failed inside the provider, and the third provider's
\* artwork is in the result
C22_Witness ==
    /\ all_result # <<>>
    /\ all_result[1].produced["media_folder"].kind = "failed"
    /\ all_result[1].produced["google_arts"].kind = "raised"
    /\ DOMAIN all_result[1].result = {Name(p) : p \in Providers}
    /\ all_result[1].result["Bing Wallpapers"] = <<ProviderArt("bing_wallpaper")>>
    /\ all_result[1].result["Google Arts & Culture"] = <<>>

\* C23: a refresh of an enabled provider whose load fails or raises leaves a
\* non-empty catalog as it was.
C23_FailedRefreshKeepsCatalog ==
    [][ ( /\ pcall'.op = "refresh"
          /\ pcall'.outcome \in {"failed", "raised"}
          /\ provider_enabled[pcall'.provider]
          /\ provider_artworks[pcall'.provider] # <<>> ) =>
            provider_artworks'[pcall'.provider] = provider_artworks[pcall'.provider]
      ]_vars

\* C24: an initialize or refresh whose load failed leaves the last-error
\* string set, and one whose load succeeded leaves it cleared.
C24_FailedLoadSetsLastError ==
    [][ /\ (pcall'.op \in {"initialize", "refresh"} /\ pcall'.outcome \in {"failed", "raised"})
                => last_error'[pcall'.provider] # ""
        /\ (pcall'.op \in {"initialize", "refresh"} /\ pcall'.outcome = "ok")
                => last_error'[pcall'.provider] = ""
      ]_vars

\* C25: when async_turn_off completes, the queue is empty and the cursor is
\* before the first item.
C25_StopClearsQueue ==
    [][ (off_pc = "sending" /\ off_pc' = "idle" /\ dop' = "turn_off_done") =>
            (queue' = <<>> /\ current_index' = -1)
      ]_vars

\* C26: History never holds more than HISTORY_MAXLEN entries nor Recently-Shown
\* more than RECENT_MAXLEN ids, and an append to a full one drops its oldest
\* entry and keeps the others in order.
C26_BoundedFifos ==
    /\ [](Len(history) <= HISTORY_MAXLEN /\ Len(recently_shown) <= RECENT_MAXLEN)
    /\ [][ /\ (Len(history) = HISTORY_MAXLEN /\ history' # history) =>
                (Len(history') = HISTORY_MAXLEN /\ Front(history') = Tail(history))
           /\ (Len(recently_shown) = RECENT_MAXLEN /\ recently_shown' # recently_shown) =>
                (Len(recently_shown') = RECENT_MAXLEN
                    /\ Front(recently_shown') = Tail(recently_shown))
         ]_vars

\* both are full and the first artwork shown has left both
C26_Witness ==
    /\ op = "get_next"
    /\ Len(history) = HISTORY_MAXLEN
    /\ Len(recently_shown) = RECENT_MAXLEN
    /\ history[1] # NumArt(0)
    /\ recently_shown[1] # "0"
    /\ Last(history).content_id = Last(recently_shown)

\* C27: set_queue with shuffle on leaves in the queue exactly the artworks of
\* its argument that carry an id, each as often as there; setting shuffle to
\* true leaves the same artworks as often in the queue; setting it to false
\* leaves the queue as it is.
C27_ShuffleOnlyReorders ==
    [][ /\ (op' = "set_queue" /\ shuffle) =>
                \A artworks \in QueueInputs :
                    (Len(Filtered(artworks)) = Len(queue') /\ SetQueue(artworks)) =>
                        BagOf(queue') = BagOf(Filtered(artworks))
        /\ (op' = "set_shuffle" /\ shuffle') =>
                (BagOf(queue') = BagOf(queue) /\ Len(queue') = Len(queue))
        /\ (op' = "set_shuffle" /\ ~shuffle') => queue' = queue
      ]_vars

\* set_queue with shuffle on has left its two artworks in the other order
C27_Witness ==
    /\ op = "set_queue"
    /\ shuffle
    /\ setValid
    /\ Len(setArg) = 2
    /\ queue = <<setArg[2], setArg[1]>>

\* C28: every artwork in the available pool carries a content id of the TV,
\* and no select_artwork call of a timer tick or of a button names the id
\* under which a provider lists an artwork.
C28_OnlyUploadedIsSelected ==
    /\ \A i \in 1..Len(available_artworks) : available_artworks[i].content_id # ""
    /\ selected # <<>> => selected[1].artwork_id \notin {e.id : e \in Externals}

\* C29: in every state, the artworks peek_next() may return are the artworks
\* get_next() may return.
C29_PeekSelectsAsGetNext ==
    \A x \in Range(queue) \cup Range(available_artworks) \cup {pending_overlay, None} :
        (ENABLED (PeekNext /\ ret' = x)) <=> (ENABLED (GetNextBody /\ ret' = x))

\* a preview drawn at random while one of the two available artworks was
\* shown recently
C29_Witness ==
    /\ op = "peek_next"
    /\ branch = "random"
    /\ Len(available_artworks) = 2
    /\ recently_shown # <<>>
    /\ ret # None
    /\ ret.content_id \notin Range(recently_shown)

\* C30: a step of async_turn_on other than its last one leaves the switch and
\* its timer as they were; a start that finds no artwork after loading, or
\* whose rotation command raises, returns, and the switch it leaves is as on or
\* off, and its timer as armed or not, as before that step.
C30_FailedStartLeavesSwitch ==
    [][ /\ (starts' # starts /\ dop' # "turn_on_done") => UNCHANGED <<is_on, cancel_timer>>
        /\ (starts' # starts /\ dop' \in {"turn_on_empty", "turn_on_failed"}) =>
                \E t \in Tasks : starts[t].pc # "idle" /\ starts'[t] = IdleStart
      ]_vars

\* the rotation command of a start raised: the switch is off, no timer was ever
\* armed, and artworks are available
C30_Witness ==
    /\ dop = "turn_on_failed"
    /\ ~is_on
    /\ cancel_timer = NoTimer
    /\ timers = 0
    /\ available_artworks # <<>>
    /\ \A t \in Tasks : starts[t] = IdleStart

\* the place of an artwork in a queue that holds it once
PlaceOf(q, artwork) == CHOOSE i \in 1..Len(q) : q[i] = artwork

\* C31: when remove_from_queue has removed an artwork other than the one
\* get_next returned last, and that one is still queued, the next get_next
\* returns the artwork queued after it, the first one if it is the last.
C31_OrderKeptAcrossDequeue ==
    [][ ( /\ op = "remove_from_queue"
          /\ ret = TRUE
          /\ history # <<>>
          /\ arg.content_id # Last(history).content_id
          /\ Last(history) \in Range(queue)
          /\ UniqueIds(queue)
          /\ op' = "get_next" ) =>
            ret' = queue[(PlaceOf(queue, Last(history)) % Len(queue)) + 1]
      ]_vars

\* C32: a get_next that finds no overlay pending and the queue non-empty
\* returns an artwork of the queue, the one its cursor is on, and does not fail
\* on an index out of range.
C32_GetNextStaysInQueue ==
    (op = "get_next" /\ branch = "queue") =>
        /\ ret # IndexError
        /\ current_index \in 0..(Len(queue) - 1)
        /\ ret = queue[current_index + 1]
        /\ ret \in Range(queue)

\* the cursor was on the second of two artworks when the first was removed,
\* and get_next has wrapped it to the one that is left
C32_Witness ==
    /\ op = "get_next"
    /\ branch = "queue"
    /\ queue = <<ArtB>>
    /\ current_index = 0
    /\ ret = ArtB
    /\ history = <<ArtA, ArtB>>

\* C33: the event loop never holds more than one timer callback of the switch,
\* and the one it holds is the one whose handle the switch stores.
C33_OneTimerArmed ==
    /\ timers \in {0, 1}
    /\ timers = 1 <=> cancel_timer.state = "armed"

\* the interval was changed while the rotation was on and idle: the timer that
\* was armed is cancelled and one timer is armed
C33_Witness ==
    /\ dop = "set_interval"
    /\ is_on
    /\ adv_pc = "idle"
    /\ on_pc = "idle"
    /\ off_pc = "idle"
    /\ timers = 1
    /\ cancel_timer.state = "armed"

\* C34: whenever the switch reports on and no async_turn_on, async_turn_off
\* or advance is under way, its timer is armed.
C34_OnMeansTimerArmed ==
    (is_on /\ on_pc = "idle" /\ off_pc = "idle" /\ adv_pc = "idle") =>
        cancel_timer.state = "armed"

\* C35: a timer callback that finds the switch off calls neither get_next nor
\* select_artwork and arms no timer: the manager and the switch are as they
\* were, and no callback is left in the event loop.
C35_TickWhileOffDoesNothing ==
    [][ (AdvanceSlide /\ ~is_on) =>
            /\ UNCHANGED <<managerVars, is_on, duration, rotation, adv_pc>>
            /\ selected' = <<>>
            /\ cancel_timer'.state # "armed"
            /\ timers' = 0
      ]_vars

\* a timer left armed ran after the switch was turned off
C35_Witness ==
    /\ dop = "tick_off"
    /\ ~is_on
    /\ cancel_timer.state = "fired"
    /\ timers = 0
    /\ adv_pc = "idle"

\* C36: the last command wins between start and stop: when async_turn_off is
\* requested while an async_turn_on is still loading or uploading artwork and no
\* command follows, then once both calls have completed the slideshow is off
\* and no timer is armed
C36_LastCommandWins ==
    (interrupted /\ off_pc = "idle" /\ \A t \in Tasks : starts[t].pc = "idle") =>
        (~is_on /\ cancel_timer.state # "armed")

\* C37 as the specification states it: get_previous() changes only History, and
\* the get_next() that follows does not return the artwork get_previous() has
\* just removed from History
C37_NextAfterPreviousIsNotTheRemoved ==
    [][ (op' = "get_previous" /\ Len(history') < Len(history)) =>
            /\ UNCHANGED <<queue, current_index, pending_overlay, recently_shown>>
            /\ (pending_overlay' # None) => pending_overlay' # Last(history)
            /\ (pending_overlay' = None /\ queue' # <<>>) =>
                   ServedNext(queue', current_index') # Last(history) ]_vars

\* C37: get_previous() removes the last entry of History and changes nothing
\* else of the manager, and a get_next() that follows and serves the queue moves
\* the cursor one place on from where it stood before get_previous(), wrapping,
\* and returns the artwork there, whether or not it is the one removed
C37_PreviousChangesOnlyHistory ==
    [][ /\ (op' = "get_previous" /\ Len(history') < Len(history)) =>
              /\ history' = Front(history)
              /\ ret' = Last(history')
              /\ UNCHANGED <<queue, current_index, pending_overlay, recently_shown, shuffle,
                             auto_random, available_artworks>>
        /\ (op = "get_previous" /\ op' = "get_next" /\ branch' = "queue") =>
              /\ current_index' = (current_index + 1) % Len(queue)
              /\ ret' = queue[current_index' + 1]
              /\ UNCHANGED queue ]_vars

\* get_previous() has removed A from History while the queue holds A alone: the
\* next get_next() serves A again
C37_Witness ==
    /\ op = "get_previous"
    /\ ret = ArtA
    /\ history = <<ArtA>>
    /\ queue = <<ArtA>>
    /\ current_index = 0
    /\ pending_overlay = None

\* C38: every artwork async_load_all_artworks() has just returned is known to
\* its provider: async_get_artwork_data(id) finds the id in the catalog it
\* consults
C38_ListedIdsResolve ==
    all_result # <<>> =>
        \A p \in Providers :
            Name(p) \in DOMAIN all_result[1].result =>
                \A i \in 1..Len(all_result[1].result[Name(p)]) :
                    KnowsId(p, provider_artworks[p], all_result[1].result[Name(p)][i].id)

\* C10: no two artworks of the queue have the same content id.
C10_QueueIdsUnique ==
    \A i, j \in 1..Len(queue) : queue[i].content_id = queue[j].content_id => i = j

====
